---- MODULE Spec2Model ----
(***************************************************************************)
(* Creator's Compass: the Analysis Invoker (main_opus_handler.py) and the  *)
(* Result Schema (data_models.py).                                         *)
(*                                                                         *)
(* Text is modelled as a sequence of words, a JSON text as a sequence of   *)
(* JSON tokens, and a Python/JSON value as a record                        *)
(*   [t, n, s, b, a, o]                                                    *)
(* whose tag t says which of the other fields carries the value: n an      *)
(* integer, s a string, b a boolean, a the elements of a list, o the       *)
(* members of a dict in insertion order.                                   *)
(***************************************************************************)
EXTENDS Integers, Sequences, FiniteSets, TLC

(* ---------------------------- bounds ----------------------------------- *)

\* longest goal text, in words
MaxGoalLen == 2
\* longest detailed_feedback sequence the service sends
MaxFeedback == 2

(* ------------------------ Python / JSON values ------------------------- *)

Null == [t |-> "null", n |-> 0, s |-> "", b |-> FALSE, a |-> <<>>, o |-> <<>>]
Int_(k) == [t |-> "int", n |-> k, s |-> "", b |-> FALSE, a |-> <<>>, o |-> <<>>]
Str(x) == [t |-> "str", n |-> 0, s |-> x, b |-> FALSE, a |-> <<>>, o |-> <<>>]
Bool(x) == [t |-> "bool", n |-> 0, s |-> "", b |-> x, a |-> <<>>, o |-> <<>>]
List(xs) == [t |-> "list", n |-> 0, s |-> "", b |-> FALSE, a |-> xs, o |-> <<>>]
Dict(ms) == [t |-> "dict", n |-> 0, s |-> "", b |-> FALSE, a |-> <<>>, o |-> ms]
Member(k, v) == [key |-> k, val |-> v]

\* key in d, for a dict d
HasKey(d, k) == d.t = "dict" /\ \E i \in 1..Len(d.o) : d.o[i].key = k
\* d[key], for a dict d that has the key
Get(d, k) == d.o[CHOOSE i \in 1..Len(d.o) : d.o[i].key = k].val
Keys(d) == {d.o[i].key : i \in 1..Len(d.o)}

\* dict assignment d[k] = v on the member sequence: a key already present
\* keeps its position and takes the new value
Put(ms, k, v) ==
    IF \E i \in 1..Len(ms) : ms[i].key = k
    THEN [i \in 1..Len(ms) |-> IF ms[i].key = k THEN Member(k, v) ELSE ms[i]]
    ELSE Append(ms, Member(k, v))

(* ----------------------------- JSON text ------------------------------- *)

Tok(k) == [k |-> k, s |-> "", n |-> 0]
TokStr(x) == [k |-> "str", s |-> x, n |-> 0]
TokInt(i) == [k |-> "int", s |-> "", n |-> i]

RECURSIVE Dumps(_)
RECURSIVE DumpsElems(_, _)
RECURSIVE DumpsMembers(_, _)
\* the JSON text of a value, as the service writes it
Dumps(v) ==
    CASE v.t = "null" -> <<Tok("null")>>
      [] v.t = "int" -> <<TokInt(v.n)>>
      [] v.t = "str" -> <<TokStr(v.s)>>
      [] v.t = "bool" -> <<Tok(IF v.b THEN "true" ELSE "false")>>
      [] v.t = "list" -> <<Tok("[")>> \o DumpsElems(v.a, 1) \o <<Tok("]")>>
      [] v.t = "dict" -> <<Tok("{")>> \o DumpsMembers(v.o, 1) \o <<Tok("}")>>
DumpsElems(xs, i) ==
    IF i > Len(xs) THEN <<>>
    ELSE (IF i > 1 THEN <<Tok(",")>> ELSE <<>>) \o Dumps(xs[i]) \o DumpsElems(xs, i + 1)
DumpsMembers(ms, i) ==
    IF i > Len(ms) THEN <<>>
    ELSE (IF i > 1 THEN <<Tok(",")>> ELSE <<>>)
         \o <<TokStr(ms[i].key), Tok(":")>> \o Dumps(ms[i].val)
         \o DumpsMembers(ms, i + 1)

Parsed(v, next) == [ok |-> TRUE, val |-> v, next |-> next]
ParseError == [ok |-> FALSE, val |-> Null, next |-> 0]
At(toks, i, k) == i <= Len(toks) /\ toks[i].k = k

RECURSIVE ParseValue(_, _)
RECURSIVE ParseElems(_, _, _)
RECURSIVE ParseMembers(_, _, _)
\* the JSON decoder: one value starting at token i
ParseValue(toks, i) ==
    IF i > Len(toks) THEN ParseError
    ELSE LET k == toks[i].k IN
         CASE k = "null" -> Parsed(Null, i + 1)
           [] k = "true" -> Parsed(Bool(TRUE), i + 1)
           [] k = "false" -> Parsed(Bool(FALSE), i + 1)
           [] k = "int" -> Parsed(Int_(toks[i].n), i + 1)
           [] k = "str" -> Parsed(Str(toks[i].s), i + 1)
           [] k = "[" -> IF At(toks, i + 1, "]") THEN Parsed(List(<<>>), i + 2)
                         ELSE ParseElems(toks, i + 1, <<>>)
           [] k = "{" -> IF At(toks, i + 1, "}") THEN Parsed(Dict(<<>>), i + 2)
                         ELSE ParseMembers(toks, i + 1, <<>>)
           [] OTHER -> ParseError
\* the elements of a list after "[" or ",": element, then "," or "]"
ParseElems(toks, i, acc) ==
    LET e == ParseValue(toks, i) IN
    IF ~e.ok THEN ParseError
    ELSE IF At(toks, e.next, ",") THEN ParseElems(toks, e.next + 1, Append(acc, e.val))
    ELSE IF At(toks, e.next, "]") THEN Parsed(List(Append(acc, e.val)), e.next + 1)
    ELSE ParseError
\* the members of an object after "{" or ",": key, ":", value, then "," or "}"
ParseMembers(toks, i, acc) ==
    IF ~(At(toks, i, "str") /\ At(toks, i + 1, ":")) THEN ParseError
    ELSE LET e == ParseValue(toks, i + 2) IN
         IF ~e.ok THEN ParseError
         ELSE IF At(toks, e.next, ",")
              THEN ParseMembers(toks, e.next + 1, Put(acc, toks[i].s, e.val))
         ELSE IF At(toks, e.next, "}")
              THEN Parsed(Dict(Put(acc, toks[i].s, e.val)), e.next + 1)
         ELSE ParseError

\* json.loads(text): the whole text is one value, else JSONDecodeError
json_loads(text) ==
    LET p == ParseValue(text, 1) IN
    IF p.ok /\ p.next = Len(text) + 1 THEN [ok |-> TRUE, val |-> p.val]
    ELSE [ok |-> FALSE, val |-> Null]

(* ------------------- Result Schema (data_models.py) -------------------- *)

\* overall_score: Field(..., ge=1, le=10)
ScoreMin == 1
ScoreMax == 10

\* the bounds taken as exclusive
ScoreStrictlyInside(k) == k > ScoreMin /\ k < ScoreMax

\* the ge / le constraint of overall_score
ScoreInRange(k) == k >= ScoreMin /\ k <= ScoreMax

\* a required field of the given type
HasField(d, k, type) == HasKey(d, k) /\ Get(d, k).t = type

\* FeedbackComponent: area, problem, solution, each a required str
FeedbackComponent(v) ==
    /\ v.t = "dict"
    /\ HasField(v, "area", "str")
    /\ HasField(v, "problem", "str")
    /\ HasField(v, "solution", "str")

\* VideoAnalysisResult: the four required fields with their types and the
\* range of overall_score; keys the model does not declare are ignored
VideoAnalysisResult(v) ==
    /\ v.t = "dict"
    /\ HasField(v, "overall_score", "int")
    /\ ScoreInRange(Get(v, "overall_score").n)
    /\ HasField(v, "review_check", "bool")
    /\ HasField(v, "summary_insight", "str")
    /\ HasField(v, "detailed_feedback", "list")
    /\ \A i \in 1..Len(Get(v, "detailed_feedback").a) :
          FeedbackComponent(Get(v, "detailed_feedback").a[i])

\* validating a document against the schema
Validate(v) == IF VideoAnalysisResult(v) THEN "accepted" ELSE "rejected"

(* --------------------------- input domains ----------------------------- *)

\* how far outside [ScoreMin, ScoreMax] the scores of the documents go
ScoreMargin == 1

SeqsUpTo(S, n) == UNION {[1..k -> S] : k \in 0..n}

\* Optional[str]: None, or a string (which may be empty)
None == [present |-> FALSE, uri |-> ""]
Some(u) == [present |-> TRUE, uri |-> u]

VideoUris == {"http://example/video.mp4"}
ReferenceUris == {None, Some(""), Some("http://example/reference.mp4")}
GoalWords == {"Option", "3", "second", "video"}
Goals == SeqsUpTo(GoalWords, MaxGoalLen)

Component(a, p, s) ==
    Dict(<<Member("area", Str(a)), Member("problem", Str(p)), Member("solution", Str(s))>>)
Components ==
    { Component("Visuals", "Harsh backlighting", "Use a ring light in front"),
      Component("Audio", "Background hum", "Use a lapel mic") }
FeedbackLists == {List(xs) : xs \in SeqsUpTo(Components, MaxFeedback)}

Scores == (ScoreMin - ScoreMargin)..(ScoreMax + ScoreMargin)
Summary == Str("Good framing, poor audio.")

\* a document with the four fields of the schema, in the schema's order
Document(score, check, summary, feedback) ==
    Dict(<<Member("overall_score", score), Member("review_check", check),
           Member("summary_insight", summary), Member("detailed_feedback", feedback)>>)
Without(d, k) == Dict(SelectSeq(d.o, LAMBDA m : m.key # k))

\* documents whose four fields all have the declared types: every score with
\* either flag, and every feedback sequence with either flag
TypedDocuments ==
    { Document(Int_(k), Bool(c), Summary, List(<<>>)) : k \in Scores, c \in BOOLEAN }
    \cup { Document(Int_(3), Bool(c), Summary, f) : c \in BOOLEAN, f \in FeedbackLists }

\* documents the service may send that break the schema, or carry more than it
DefectiveDocuments ==
    LET good == Document(Int_(3), Bool(TRUE), Summary, List(<<>>)) IN
    { Without(good, "overall_score"),
      Without(good, "detailed_feedback"),
      Document(Null, Bool(TRUE), Summary, List(<<>>)),
      Document(Str("high"), Bool(TRUE), Summary, List(<<>>)),
      Document(Int_(3), Bool(TRUE), Summary, List(<<Str("Audio")>>)),
      Dict(Append(good.o, Member("error", Str("none")))),
      Dict(<<Member("error", Str("quota exceeded"))>>),
      Dict(<<>>),
      List(<<>>),
      Int_(7),
      Null }

ServiceDocuments == TypedDocuments \cup DefectiveDocuments

\* texts that are not JSON: empty, cut short, or with data after the value
MalformedTexts ==
    { <<>>,
      <<Tok("{"), TokStr("overall_score"), Tok(":")>>,
      <<Tok("{"), Tok("}"), Tok("}")>>,
      <<Tok("["), TokInt(1), Tok(","), Tok("]")>> }

\* response.text: None, or a text
NoText == [hasText |-> FALSE, text |-> <<>>]
Text(toks) == [hasText |-> TRUE, text |-> toks]
Responses ==
    {NoText} \cup {Text(Dumps(d)) : d \in ServiceDocuments}
             \cup {Text(x) : x \in MalformedTexts}

\* what str(e) gives for the failures of the call to the service
ServiceErrors ==
    { "[Errno 111] Connection refused",
      "401 UNAUTHENTICATED",
      "429 RESOURCE_EXHAUSTED" }
\* what str(e) gives for the failures of json.loads
JSONDecodeError == "Expecting value"
NoneTypeError == "the JSON object must be str, bytes or bytearray, not NoneType"
\* a failure of types.Part.from_uri or types.Part.from_text
PartError == "TypeError"

(* --------------------- main_opus_handler.py ---------------------------- *)

VARIABLES
    pc,                   \* where the invocation is: a line of the function
    video_uri,            \* the arguments of the invocation
    user_goal,
    reference_video_uri,
    contents,             \* the parts collected for the request
    base_prompt,
    request,              \* the contents the service was called with
    calls,                \* calls to the service made by this invocation
    response,             \* response.text
    exc,                  \* str(e) of the exception raised last
    caught,               \* the except clause ran
    result,               \* the value returned
    prev,                 \* the request of the invocation before, when it had
                          \* the same video and goal and no reference video
    candidate,            \* the Result Schema: a document and
    verdict               \* what validating it gave

vars == <<pc, video_uri, user_goal, reference_video_uri, contents, base_prompt,
          request, calls, response, exc, caught, result, prev, candidate, verdict>>
invocation == <<pc, video_uri, user_goal, reference_video_uri, contents,
                base_prompt, request, calls, response, exc, caught, result, prev>>
schema == <<candidate, verdict>>

\* get_base_analysis_prompt(goal): the goal stands verbatim in the prompt
get_base_analysis_prompt(goal) ==
    << "You are an expert video producer and content quality analyst.",
       "Your task is to analyze the provided video URL/file for technical quality issues.",
       "Focus on: 1) Camera Angle/Framing, 2) Lighting Quality, 3) Audio Clarity/Noise, 4) Video Pacing/Engagement.",
       "Generate a structured JSON output that conforms exactly to the VideoAnalysisResult schema.",
       "The user's goal is:" >>
    \o goal \o << ".", "Be critical but constructive." >>

\* the comparison instruction left out
PromptWithoutComparison(goal) == get_base_analysis_prompt(goal)

\* the prompt of the 'Option 3: Copy & Create' scenario
ComparisonPrompt(goal) ==
    << "Compare", "the", "FIRST", "video", "(User's upload)",
       "with", "the", "SECOND", "video", "(Reference/Goal)." >>
    \o get_base_analysis_prompt(goal)

Option3 == <<"Option", "3">>

\* the test with the goal left out, and with the reference video left out
UseReferenceWhateverGoal(ref, goal) == ref.present /\ ref.uri # ""
UseReferenceWhateverReference(ref, goal) == goal = Option3

\* if reference_video_uri and user_goal == "Option 3": None and "" are falsy
UseReference(ref, goal) == ref.present /\ ref.uri # "" /\ goal = Option3

\* types.Part.from_uri(uri=..., mime_type="video/mp4"), types.Part.from_text(...)
UriPart(u) == [kind |-> "uri", uri |-> u, mime_type |-> "video/mp4", text |-> <<>>]
TextPart(p) == [kind |-> "text", uri |-> "", mime_type |-> "", text |-> p]

\* the payload without its message
ErrorOnly(e) == Dict(<<Member("error", Str(e))>>)

\* the dict of the except clause
ErrorPayload(e) ==
    Dict(<<Member("error", Str(e)),
           Member("message", Str("Failed to get analysis from Gemini."))>>)

\* a failure inside the try block sends the call again
Retry == "L71"

\* a failure inside the try block goes to the except clause
Handler == "L80"

NoPrev == [has |-> FALSE, request |-> <<>>]
Ended == pc \in {"returned", "raised"}

\* the function is entered: lines 25-40
Enter(v, g, r) ==
    /\ pc' = "L45"
    /\ video_uri' = v
    /\ user_goal' = g
    /\ reference_video_uri' = r
    /\ contents' = <<>>
    /\ base_prompt' = <<>>
    /\ request' = <<>>
    /\ calls' = 0
    /\ response' = NoText
    /\ exc' = ""
    /\ caught' = FALSE
    /\ result' = Null
    /\ UNCHANGED schema

\* an invocation with any arguments
Invoke(v, g, r) ==
    /\ pc = "idle"
    /\ Enter(v, g, r)
    /\ prev' = NoPrev

\* after an invocation without reference video that called the service: the
\* same video and goal again, now with a reference video
InvokeWithReference(r) ==
    /\ Ended
    /\ ~reference_video_uri.present
    /\ request # <<>>
    /\ r.present
    /\ Enter(video_uri, user_goal, r)
    /\ prev' = [has |-> TRUE, request |-> request]

\* an exception leaves the function: nothing is returned
Raise(e) ==
    /\ pc' = "raised"
    /\ exc' = e

\* lines 45-49: the part of the main video
MainPart ==
    /\ pc = "L45"
    /\ contents' = Append(contents, UriPart(video_uri))
    /\ pc' = "L52"
    /\ UNCHANGED <<video_uri, user_goal, reference_video_uri, base_prompt, request,
                   calls, response, exc, caught, result, prev, schema>>

MainPartRaises ==
    /\ pc = "L45"
    /\ Raise(PartError)
    /\ UNCHANGED <<video_uri, user_goal, reference_video_uri, contents, base_prompt,
                   request, calls, response, caught, result, prev, schema>>

\* lines 52-63: both videos and the comparison prompt, or the base prompt
Comparison ==
    /\ pc = "L52"
    /\ UseReference(reference_video_uri, user_goal)
    /\ contents' = Append(contents, UriPart(reference_video_uri.uri))
    /\ base_prompt' = ComparisonPrompt(user_goal)
    /\ pc' = "L65"
    /\ UNCHANGED <<video_uri, user_goal, reference_video_uri, request, calls,
                   response, exc, caught, result, prev, schema>>

ReferencePartRaises ==
    /\ pc = "L52"
    /\ UseReference(reference_video_uri, user_goal)
    /\ Raise(PartError)
    /\ UNCHANGED <<video_uri, user_goal, reference_video_uri, contents, base_prompt,
                   request, calls, response, caught, result, prev, schema>>

SingleVideo ==
    /\ pc = "L52"
    /\ ~UseReference(reference_video_uri, user_goal)
    /\ base_prompt' = get_base_analysis_prompt(user_goal)
    /\ pc' = "L65"
    /\ UNCHANGED <<video_uri, user_goal, reference_video_uri, contents, request,
                   calls, response, exc, caught, result, prev, schema>>

\* line 65: the prompt is the last part
PromptPart ==
    /\ pc = "L65"
    /\ contents' = Append(contents, TextPart(base_prompt))
    /\ pc' = "L71"
    /\ UNCHANGED <<video_uri, user_goal, reference_video_uri, base_prompt, request,
                   calls, response, exc, caught, result, prev, schema>>

PromptPartRaises ==
    /\ pc = "L65"
    /\ Raise(PartError)
    /\ UNCHANGED <<video_uri, user_goal, reference_video_uri, contents, base_prompt,
                   request, calls, response, caught, result, prev, schema>>

\* lines 71-75: client.models.generate_content answers
Call(r) ==
    /\ pc = "L71"
    /\ calls' = calls + 1
    /\ request' = contents
    /\ response' = r
    /\ pc' = "L78"
    /\ UNCHANGED <<video_uri, user_goal, reference_video_uri, contents, base_prompt,
                   exc, caught, result, prev, schema>>

\* lines 71-75: client.models.generate_content raises
CallRaises(e) ==
    /\ pc = "L71"
    /\ calls' = calls + 1
    /\ request' = contents
    /\ exc' = e
    /\ pc' = Handler
    /\ UNCHANGED <<video_uri, user_goal, reference_video_uri, contents, base_prompt,
                   response, caught, result, prev, schema>>

\* the decoded document with review_check computed from overall_score
Recomputed(v) ==
    IF HasField(v, "overall_score", "int") /\ HasKey(v, "review_check")
    THEN Dict(Put(v.o, "review_check", Bool(Get(v, "overall_score").n < 5)))
    ELSE v
SuccessValueRecomputed(text) == Recomputed(json_loads(text).val)

\* return json.loads(response.text)
SuccessValue(text) == json_loads(text).val

\* line 78: the decoded text is returned as it is
Decode ==
    /\ pc = "L78"
    /\ response.hasText /\ json_loads(response.text).ok
    /\ result' = SuccessValue(response.text)
    /\ pc' = "returned"
    /\ UNCHANGED <<video_uri, user_goal, reference_video_uri, contents, base_prompt,
                   request, calls, response, exc, caught, prev, schema>>

\* line 78: json.loads raises
DecodeRaises ==
    /\ pc = "L78"
    /\ ~(response.hasText /\ json_loads(response.text).ok)
    /\ exc' = IF response.hasText THEN JSONDecodeError ELSE NoneTypeError
    /\ pc' = Handler
    /\ UNCHANGED <<video_uri, user_goal, reference_video_uri, contents, base_prompt,
                   request, calls, response, caught, result, prev, schema>>

\* lines 80-83: except Exception as e
Except ==
    /\ pc = "L80"
    /\ caught' = TRUE
    /\ result' = ErrorPayload(exc)
    /\ pc' = "returned"
    /\ UNCHANGED <<video_uri, user_goal, reference_video_uri, contents, base_prompt,
                   request, calls, response, exc, prev, schema>>

\* the invocation is over and the caller has its outcome: the module is as
\* it was, ready for the next invocation
Finish ==
    /\ Ended
    /\ pc' = "idle"
    /\ video_uri' = ""
    /\ user_goal' = <<>>
    /\ reference_video_uri' = None
    /\ contents' = <<>>
    /\ base_prompt' = <<>>
    /\ request' = <<>>
    /\ calls' = 0
    /\ response' = NoText
    /\ exc' = ""
    /\ caught' = FALSE
    /\ result' = Null
    /\ prev' = NoPrev
    /\ UNCHANGED schema

Init ==
    /\ pc = "idle"
    /\ video_uri = ""
    /\ user_goal = <<>>
    /\ reference_video_uri = None
    /\ contents = <<>>
    /\ base_prompt = <<>>
    /\ request = <<>>
    /\ calls = 0
    /\ response = NoText
    /\ exc = ""
    /\ caught = FALSE
    /\ result = Null
    /\ prev = NoPrev
    /\ candidate = Null
    /\ verdict = "unchecked"

Next ==
    \/ \E v \in VideoUris, g \in Goals, r \in ReferenceUris : Invoke(v, g, r)
    \/ \E r \in ReferenceUris : InvokeWithReference(r)
    \/ MainPart
    \/ MainPartRaises
    \/ Comparison
    \/ ReferencePartRaises
    \/ SingleVideo
    \/ PromptPart
    \/ PromptPartRaises
    \/ \E r \in Responses : Call(r)
    \/ \E e \in ServiceErrors : CallRaises(e)
    \/ Decode
    \/ DecodeRaises
    \/ Except
    \/ Finish

Spec == Init /\ [][Next]_vars

(* --------------------- the Result Schema on its own -------------------- *)

\* documents put to the schema: every field of the right type, of a wrong
\* type, or missing
FieldChoices(k, typed) ==
    {<<Member(k, v)>> : v \in typed \cup {Null}} \cup {<<>>}
SchemaDocuments ==
    { Dict(s \o c \o i \o f) :
        s \in FieldChoices("overall_score", {Int_(k) : k \in Scores} \cup {Str("high")}),
        c \in FieldChoices("review_check", {Bool(TRUE), Bool(FALSE)}),
        i \in FieldChoices("summary_insight", {Summary}),
        f \in FieldChoices("detailed_feedback", FeedbackLists) }

SchemaInit ==
    /\ Init!1 /\ Init!2 /\ Init!3 /\ Init!4 /\ Init!5 /\ Init!6 /\ Init!7
    /\ Init!8 /\ Init!9 /\ Init!10 /\ Init!11 /\ Init!12 /\ Init!13
    /\ candidate \in SchemaDocuments
    /\ verdict = "unchecked"

\* the document is validated against VideoAnalysisResult
ValidateCandidate ==
    /\ verdict = "unchecked"
    /\ verdict' = Validate(candidate)
    /\ UNCHANGED <<candidate, invocation>>

SchemaNext == ValidateCandidate

SchemaSpec == SchemaInit /\ [][SchemaNext]_vars

(* ------------------------------ claims --------------------------------- *)

Returned == pc = "returned"
Sent == request # <<>>
Message == "Failed to get analysis from Gemini."

\* C1: when the call to the service fails, the invocation goes to the except
\* clause and returns {"error": <text of the failure>, "message": "Failed to
\* get analysis from Gemini."}; it does not raise.
C1_ServiceFailureReturnsErrorPayload ==
    exc \in ServiceErrors =>
        /\ pc \in {"L80", "returned"}
        /\ Returned =>
              result = Dict(<<Member("error", Str(exc)), Member("message", Str(Message))>>)
C1_Witness ==
    /\ Returned
    /\ exc = "[Errno 111] Connection refused"
    /\ HasKey(result, "message")

\* C2: no invocation ends by propagating an exception to the caller, whichever
\* step fails.
C2_NeverRaises == pc # "raised"

IsFailureShape(v) ==
    /\ v.t = "dict"
    /\ Keys(v) = {"error", "message"}
    /\ Get(v, "error").t = "str"
    /\ Get(v, "message").t = "str"
IsSuccessShape(v) ==
    /\ v.t = "dict"
    /\ Keys(v) = {"overall_score", "review_check", "summary_insight", "detailed_feedback"}
    /\ Get(v, "overall_score").t = "int"
    /\ Get(v, "overall_score").n \in 1..10
    /\ Get(v, "review_check").t = "bool"
    /\ Get(v, "summary_insight").t = "str"
    /\ Get(v, "detailed_feedback").t = "list"
    /\ \A i \in 1..Len(Get(v, "detailed_feedback").a) :
          LET c == Get(v, "detailed_feedback").a[i] IN
          /\ c.t = "dict"
          /\ Keys(c) = {"area", "problem", "solution"}

\* C3: every value returned has the success shape or the failure shape; a
\* response that is valid JSON but breaks the schema yields the failure shape.
C3_ReturnedValueHasAShape ==
    Returned => IsSuccessShape(result) \/ IsFailureShape(result)

\* C4: the returned value has an "error" key if and only if the invocation
\* failed, that is, an exception was caught by the except clause.
C4_ErrorKeyIffFailed ==
    Returned => (HasKey(result, "error") <=> caught)

\* C8: an invocation that returns has made exactly one call to the service,
\* and no invocation ever makes a second one, whether the call succeeded,
\* failed or gave an undecodable response.
C8_ExactlyOneCall ==
    /\ calls <= 1
    /\ pc \in {"L78", "L80", "returned"} => calls = 1
C8_Witness ==
    /\ Returned
    /\ exc = JSONDecodeError
    /\ calls = 1

\* C9: when the response text is the JSON text of a document matching the
\* schema exactly, the value returned is that document: every field as sent,
\* detailed_feedback with the same elements in the same order, review_check
\* as sent.
C9_RoundTrip ==
    Returned /\ response.hasText =>
        \A d \in TypedDocuments :
            IsSuccessShape(d) /\ response.text = Dumps(d) => result = d
C9_Witness ==
    /\ Returned
    /\ ~caught
    /\ IsSuccessShape(result)
    /\ Get(result, "overall_score").n = 10
    /\ Get(result, "review_check").b
    /\ Get(result, "detailed_feedback").a = <<>>

OtherFieldsValid(d) ==
    /\ d.t = "dict"
    /\ HasKey(d, "review_check") /\ Get(d, "review_check").t = "bool"
    /\ HasKey(d, "summary_insight") /\ Get(d, "summary_insight").t = "str"
    /\ HasKey(d, "detailed_feedback") /\ Get(d, "detailed_feedback").t = "list"
    /\ \A i \in 1..Len(Get(d, "detailed_feedback").a) :
          Get(d, "detailed_feedback").a[i] \in Components

\* C10: a document whose other fields are valid is accepted by the schema
\* exactly when its overall_score is an integer from 1 to 10: 1 and 10 are
\* accepted, 0 and 11 are rejected.
C10_ScoreBoundary ==
    verdict # "unchecked" /\ OtherFieldsValid(candidate) =>
        ( verdict = "accepted" <=>
            /\ HasKey(candidate, "overall_score")
            /\ Get(candidate, "overall_score").t = "int"
            /\ Get(candidate, "overall_score").n >= 1
            /\ Get(candidate, "overall_score").n <= 10 )
C10_Witness ==
    /\ verdict = "accepted"
    /\ Get(candidate, "overall_score").n = 10
    /\ Len(Get(candidate, "detailed_feedback").a) = MaxFeedback

\* the words of a prompt in lower case, as far as the claims read them
Lower(w) ==
    CASE w = "SECOND" -> "second"
      [] w = "FIRST" -> "first"
      [] w = "Compare" -> "compare"
      [] OTHER -> w
Mentions(p, a, b) ==
    \E i \in 1..(Len(p) - 1) : Lower(p[i]) = a /\ Lower(p[i + 1]) = b
MentionsSecondVideo(p) == Mentions(p, "second", "video")
\* the prompt opens with the instruction to compare the first video with the
\* second
InstructsComparison(p) ==
    /\ Len(p) >= 9
    /\ Lower(p[1]) = "compare"
    /\ Lower(p[3]) = "first" /\ Lower(p[4]) = "video"
    /\ Lower(p[8]) = "second" /\ Lower(p[9]) = "video"

Prompt(r) == r[Len(r)].text
\* the primary video, the reference video, then a prompt asking to compare
TwoVideosThenComparison(r) ==
    /\ Len(r) = 3
    /\ r[1].kind = "uri" /\ r[1].uri = video_uri
    /\ r[2].kind = "uri" /\ r[2].uri = reference_video_uri.uri
    /\ r[3].kind = "text" /\ InstructsComparison(r[3].text)
\* one video and a prompt
OneVideoThenPrompt(r) ==
    /\ Len(r) = 2
    /\ r[1].kind = "uri" /\ r[1].uri = video_uri
    /\ r[2].kind = "text"

\* C5 (as stated): with a reference video that is not null and the goal
\* "Option 3", the request holds the primary video, the reference video and a
\* prompt that asks to compare the first video with the second.
C5_ReferenceNotNull ==
    Sent /\ reference_video_uri.present /\ user_goal = Option3 =>
        TwoVideosThenComparison(request)

\* C5 (amended): the same, for a reference video that is neither null nor the
\* empty string.
C5_ReferenceNotEmpty ==
    Sent /\ reference_video_uri.present /\ reference_video_uri.uri # ""
         /\ user_goal = Option3 =>
        TwoVideosThenComparison(request)
C5_Witness ==
    /\ Returned
    /\ reference_video_uri = Some("http://example/reference.mp4")
    /\ user_goal = Option3
    /\ Len(request) = 3

\* C6 (as stated): without reference video, whatever the goal, the request
\* holds one video and its prompt does not mention a second video.
C6_NoSecondVideo ==
    Sent /\ ~reference_video_uri.present =>
        /\ OneVideoThenPrompt(request)
        /\ ~MentionsSecondVideo(Prompt(request))

\* C6 (amended): without reference video the request holds one video, and its
\* prompt carries no instruction to compare and mentions a second video only
\* where the goal text itself does.
C6_NoSecondVideoButTheGoals ==
    Sent /\ ~reference_video_uri.present =>
        /\ OneVideoThenPrompt(request)
        /\ ~InstructsComparison(Prompt(request))
        /\ MentionsSecondVideo(Prompt(request)) <=> MentionsSecondVideo(user_goal)
C6_Witness ==
    /\ Returned
    /\ ~reference_video_uri.present
    /\ user_goal = Option3
    /\ Len(request) = 2

\* C7: with a reference video and a goal other than "Option 3", the request
\* is the one built for the same video and goal without reference video.
C7_ReferenceIgnored ==
    Sent /\ prev.has /\ reference_video_uri.present /\ user_goal # Option3 =>
        request = prev.request
C7_Witness ==
    /\ Returned
    /\ prev.has
    /\ reference_video_uri = Some("http://example/reference.mp4")
    /\ user_goal = <<"Option", "second">>
    /\ Sent

====
